---------------------------- MODULE Spec2Model ----------------------------
(***************************************************************************)
(* A model of makeMaze (src/jsmaze/maze.js): dimension normalisation,      *)
(* allocation, region reservation, start-cell selection, depth-first       *)
(* carving with an explicit stack, imperfection injection, island repair   *)
(* and reservation clearing.  Every call of Math.random() is a             *)
(* nondeterministic choice over the values the expression it feeds can     *)
(* take for a random number in [0, 1).                                     *)
(***************************************************************************)
EXTENDS Integers, Sequences, FiniteSets, TLC

\* Cell codes (maze.js line 37).
SOLID == 255
RESERVED == 127
EMPTY == 0

\* The value JavaScript yields for an array element that does not exist.
UNDEF == -1

\* Largest requested width and height that Init draws.
MaxDim == 8

\* Largest number of cell positions (odd x, odd y) of a torus that Init draws.
MaxWrapCells == 4

\* Largest number of cell positions of a grid that Init draws with both
\* 0 < res < 1 and imperfect <= 0.  Carving does not read imperfect, so the
\* carving of a larger partly reserved grid is the one of the requests with
\* imperfect > 0.
MaxPerfectCells == 6

VARIABLES
    pc,              \* position in makeMaze
    w, h,            \* requested, then normalised, width and height
    wrap,            \* torus flag
    imperfect,       \* imperfection fraction <<numerator, denominator>>
    fill,            \* fill fraction (an integer here)
    res,             \* reservation probability, in tenths
    maze,            \* maze[x][y], x in 0..w-1, y in 0..h-1
    cur,             \* start cell being selected
    stack,           \* frontier entries [x, y, step]
    directions,      \* the four direction vectors, in their current order
    ignoreReserved,  \* carves left during which RESERVED counts as unexplored
    i,               \* remaining iterations of the imperfection loop
    sx, sy,          \* junction scanned next by the island sweep
    err,             \* exception thrown, or "none"
    oob              \* TRUE once an element outside the grid has been read

vars == <<pc, w, h, wrap, imperfect, fill, res, maze, cur, stack, directions,
          ignoreReserved, i, sx, sy, err, oob>>

-----------------------------------------------------------------------------
\* Arithmetic helpers.

Min(a, b) == IF a < b THEN a ELSE b
Max(a, b) == IF a > b THEN a ELSE b

\* JavaScript's ~n on a 32-bit integer.
BitNot(n) == -n - 1

\* n & 1 for n >= 0.
LowBit(n) == n % 2

\* The values floor(random() * n / 2) can take, random() in [0, 1).
\* For n < 0 the product lies in (n/2, 0], and is 0 only when random() is 0.
FloorHalfRand(n) ==
    IF n > 0 THEN 0 .. ((n + 1) \div 2 - 1)
    ELSE IF n = 0 THEN {0}
    ELSE {0} \cup ((n \div 2) .. -1)

\* NormDim with the mask of line 33 lost, ~1 for ~(w & 1): a rectangle of
\* even requested size stays even.
NormDimMaskLost(n, wr) ==
    IF wr THEN n + LowBit(n) ELSE n + BitNot(1)

\* Lines 28-34: width or height adjusted to the parity of the topology.
NormDim(n, wr) ==
    IF wr THEN n + LowBit(n) ELSE n + BitNot(LowBit(n))

\* Line 24: the fraction p = <<numerator, denominator>> clamped to [0, 1].
ClampImperfect(p) ==
    IF p[1] <= 0 THEN <<0, 1>>
    ELSE IF p[1] >= p[2] THEN <<1, 1>>
    ELSE p

\* Line 26: res = 1 - min(max(0, fill * 0.9 + 0.1), 1), in tenths.
ResOf(f) == 10 - Min(Max(0, f * 9 + 1), 10)

\* Line 123: ceil(imperfect * w * h / 3).
ImperfectCount(p, ww, hh) == (p[1] * ww * hh + (3 * p[2] - 1)) \div (3 * p[2])

-----------------------------------------------------------------------------
\* Grid helpers.

\* Cell positions visited by the loops of lines 45-46 and 145-146.
CellPositions(ww, hh) ==
    {<<2 * a + 1, 2 * b + 1>> :
        a \in 0 .. (ww \div 2) - 1, b \in 0 .. (hh \div 2) - 1}

\* maze[x][y] where maze[x] exists: the element, or undefined.
Elem(m, x, y) ==
    IF y \in DOMAIN m[x] THEN m[x][y] ELSE UNDEF

\* maze[x][y] = v.
Put(m, x, y, v) == [m EXCEPT ![x][y] = v]

\* unexplored with the parentheses of line 69 misplaced: while ignoreReserved
\* is positive every cell counts as unexplored.
unexploredAnyCell(m, ign, x, y) ==
    LET c == m[x][y]
    IN  (c = SOLID) \/ (c = RESERVED) \/ (ign > 0)

\* Lines 67-70.
unexplored(m, ign, x, y) ==
    LET c == m[x][y]
    IN  (c = SOLID) \/ ((c = RESERVED) /\ (ign > 0))

\* Line 62.
InitDirections ==
    << [x |-> -1, y |-> 0], [x |-> 1, y |-> 0],
       [x |-> 0, y |-> 1], [x |-> 0, y |-> -1] >>

\* Line 88, with 0-based indices a and b.
Swap(d, a, b) == [d EXCEPT ![a + 1] = d[b + 1], ![b + 1] = d[a + 1]]

\* Lines 86-89: Fisher-Yates with the draws j3 in 0..3, j2 in 0..2, j1 in 0..1.
Shuffle(d, j3, j2, j1) == Swap(Swap(Swap(d, 3, j3), 2, j2), 1, j1)

-----------------------------------------------------------------------------
\* Inputs.

\* The imperfection fractions drawn: -1/32 (clamped to 0), 0 and 1/32.
Imperfects == {<<-1, 32>>, <<0, 1>>, <<1, 32>>}

\* The fill fractions drawn: res is 1 for -1, 0.9 for 0 and 0 for 1.
Fills == {-1, 0, 1}

\* Number of cell positions of the grid a request normalises to.
CellCount(rw, rh, wr) ==
    LET nw == NormDim(rw, wr)
        nh == NormDim(rh, wr)
    IN  IF nw < 1 \/ nh < 1 THEN 0 ELSE (nw \div 2) * (nh \div 2)

Init ==
    /\ pc = "normalize"
    /\ w \in 1 .. MaxDim
    /\ h \in 1 .. MaxDim
    /\ wrap \in BOOLEAN
    /\ wrap => CellCount(w, h, wrap) <= MaxWrapCells
    /\ imperfect \in Imperfects
    /\ fill \in Fills
    /\ (imperfect[1] <= 0 /\ ResOf(fill) \in 1 .. 9)
          => CellCount(w, h, wrap) <= MaxPerfectCells
    /\ res = 0
    /\ maze = << >>
    /\ cur = [x |-> 0, y |-> 0]
    /\ stack = << >>
    /\ directions = InitDirections
    /\ ignoreReserved = 0
    /\ i = 0
    /\ sx = 0
    /\ sy = 0
    /\ err = "none"
    /\ oob = FALSE

-----------------------------------------------------------------------------
\* Lines 22-41: normalise the arguments and allocate the grid, all SOLID.

Allocate ==
    /\ pc = "normalize"
    /\ LET nw == NormDim(w, wrap)
           nh == NormDim(h, wrap)
       IN  /\ nw >= 0
           /\ nh >= 0
           /\ w' = nw
           /\ h' = nh
           /\ maze' = [x \in 0 .. nw - 1 |-> [y \in 0 .. nh - 1 |-> SOLID]]
    /\ imperfect' = ClampImperfect(imperfect)
    /\ res' = ResOf(fill)
    /\ pc' = "reserve"
    /\ UNCHANGED <<wrap, fill, cur, stack, directions, ignoreReserved, i,
                   sx, sy, err, oob>>

\* new Array(n) with n < 0 throws a RangeError (lines 38 and 40).
AllocateThrows ==
    /\ pc = "normalize"
    /\ LET nw == NormDim(w, wrap)
           nh == NormDim(h, wrap)
       IN  /\ (nw < 0 \/ nh < 0)
           /\ w' = nw
           /\ h' = nh
    /\ imperfect' = ClampImperfect(imperfect)
    /\ res' = ResOf(fill)
    /\ err' = "RangeError"
    /\ pc' = "error"
    /\ UNCHANGED <<wrap, fill, maze, cur, stack, directions, ignoreReserved,
                   i, sx, sy, oob>>

-----------------------------------------------------------------------------
\* Lines 43-50: reserve some cell positions.

\* The sets of cell positions the loop can mark: random() < res is false for
\* every draw when res = 0, true for every draw when res = 1, and either,
\* draw by draw, otherwise.
ReserveChoices(ww, hh, r) ==
    IF r <= 0 THEN {{}}
    ELSE IF r >= 10 THEN {CellPositions(ww, hh)}
    ELSE SUBSET CellPositions(ww, hh)

Reserved(m, S) ==
    [x \in DOMAIN m |-> [y \in DOMAIN m[x] |->
        IF <<x, y>> \in S THEN RESERVED ELSE m[x][y]]]

\* Line 54: the cell the search for a start cell begins at.
StartCell(ww, hh) ==
    [x |-> 1 + ((ww - 4) \div 2) * 2, y |-> 1 + ((hh - 4) \div 2) * 2]

Reserve ==
    /\ pc = "reserve"
    /\ \E S \in ReserveChoices(w, h, res) : maze' = Reserved(maze, S)
    /\ cur' = StartCell(w, h)
    /\ pc' = "start"
    /\ UNCHANGED <<w, h, wrap, imperfect, fill, res, stack, directions,
                   ignoreReserved, i, sx, sy, err, oob>>

-----------------------------------------------------------------------------
\* Lines 55-58: find a SOLID cell to start from.

\* Lines 56-57: the positions one resampling can produce.
ResampleRange(ww, hh) ==
    {[x |-> a * 2 + 1, y |-> b * 2 + 1] :
        a \in FloorHalfRand(ww - 4), b \in FloorHalfRand(hh - 4)}

\* maze[cur.x] is undefined, so maze[cur.x][cur.y] throws a TypeError.
StartThrows ==
    /\ pc = "start"
    /\ cur.x \notin DOMAIN maze
    /\ err' = "TypeError"
    /\ oob' = TRUE
    /\ pc' = "error"
    /\ UNCHANGED <<w, h, wrap, imperfect, fill, res, maze, cur, stack,
                   directions, ignoreReserved, i, sx, sy>>

\* The loop condition holds: draw another position.
Resample ==
    /\ pc = "start"
    /\ cur.x \in DOMAIN maze
    /\ Elem(maze, cur.x, cur.y) # SOLID
    /\ oob' = (oob \/ cur.y \notin DOMAIN maze[cur.x])
    /\ cur' \in ResampleRange(w, h)
    /\ UNCHANGED <<pc, w, h, wrap, imperfect, fill, res, maze, stack,
                   directions, ignoreReserved, i, sx, sy, err>>

\* The loop exits; lines 61-65.
StartFound ==
    /\ pc = "start"
    /\ cur.x \in DOMAIN maze
    /\ Elem(maze, cur.x, cur.y) = SOLID
    /\ stack' = << [x |-> cur.x, y |-> cur.y, step |-> [x |-> 0, y |-> 0]] >>
    /\ ignoreReserved' = Max(w, h)
    /\ pc' = "carve"
    /\ UNCHANGED <<w, h, wrap, imperfect, fill, res, maze, cur, directions,
                   i, sx, sy, err, oob>>

-----------------------------------------------------------------------------
\* Lines 72-107: carve with an explicit stack.

\* JavaScript's a % n for n > 0: the sign follows the dividend.
JsMod(a, n) == IF a >= 0 THEN a % n ELSE -((-a) % n)

\* BackWall with the sign of the step flipped: the wall ahead is carved.
BackWallAhead(e, ww, hh) ==
    <<JsMod(e.x + e.step.x + ww, ww), JsMod(e.y + e.step.y + hh, hh)>>

\* Line 83: the wall position between the popped cell and its source.
BackWall(e, ww, hh) ==
    <<JsMod(e.x - e.step.x + ww, ww), JsMod(e.y - e.step.y + hh, hh)>>

\* Lines 79 and 83.
Carved(m, e, ww, hh) ==
    LET b == BackWall(e, ww, hh)
    IN  Put(Put(m, e.x, e.y, EMPTY), b[1], b[2], EMPTY)

\* Lines 93-99: the neighbour two steps away in direction step.
Neighbour(e, step, ww, hh, wr) ==
    LET x == e.x + step.x * 2
        y == e.y + step.y * 2
    IN  IF wr THEN <<JsMod(x + ww, ww), JsMod(y + hh, hh)>> ELSE <<x, y>>

\* Line 101.
Pushable(m, ign, n, ww, hh) ==
    /\ n[1] >= 0
    /\ n[2] >= 0
    /\ n[1] < ww
    /\ n[2] < hh
    /\ unexplored(m, ign, n[1], n[2])

\* Lines 92-105: the entries pushed, in the order of the directions d.
Pushes(m, ign, e, d, ww, hh, wr) ==
    LET entry(k) ==
            LET n == Neighbour(e, d[k], ww, hh, wr)
            IN  [x |-> n[1], y |-> n[2], step |-> d[k]]
        all == [k \in 1 .. 4 |-> entry(k)]
    IN  SelectSeq(all, LAMBDA f : Pushable(m, ign, <<f.x, f.y>>, ww, hh))

Top(s) == s[Len(s)]
Pop(s) == SubSeq(s, 1, Len(s) - 1)

\* One iteration of the loop whose popped cell is unexplored.
CarveCell ==
    /\ pc = "carve"
    /\ Len(stack) > 0
    /\ LET e == Top(stack)
           m == Carved(maze, e, w, h)
           ign == ignoreReserved - 1
       IN  /\ unexplored(maze, ignoreReserved, e.x, e.y)
           /\ maze' = m
           /\ ignoreReserved' = ign
           /\ \E j3 \in 0 .. 3, j2 \in 0 .. 2, j1 \in 0 .. 1 :
                LET d == Shuffle(directions, j3, j2, j1)
                IN  /\ directions' = d
                    /\ stack' = Pop(stack) \o Pushes(m, ign, e, d, w, h, wrap)
    /\ UNCHANGED <<pc, w, h, wrap, imperfect, fill, res, cur, i, sx, sy,
                   err, oob>>

\* One iteration of the loop whose popped cell was explored already.
CarveSkip ==
    /\ pc = "carve"
    /\ Len(stack) > 0
    /\ ~unexplored(maze, ignoreReserved, Top(stack).x, Top(stack).y)
    /\ stack' = Pop(stack)
    /\ UNCHANGED <<pc, w, h, wrap, imperfect, fill, res, maze, cur,
                   directions, ignoreReserved, i, sx, sy, err, oob>>

\* The stack is empty (line 72); line 110 chooses the next stage.
CarveDone ==
    /\ pc = "carve"
    /\ Len(stack) = 0
    /\ IF imperfect[1] > 0
         THEN /\ pc' = "imperfect"
              /\ i' = ImperfectCount(imperfect, w, h)
         ELSE /\ pc' = "unreserve"
              /\ i' = i
    /\ UNCHANGED <<w, h, wrap, imperfect, fill, res, maze, cur, stack,
                   directions, ignoreReserved, sx, sy, err, oob>>

-----------------------------------------------------------------------------
\* Lines 110-126: remove some random walls.

\* Line 111.
Bdry(wr) == IF wr THEN 0 ELSE 1

\* Lines 115-116 and 131-132: the four direct neighbours of (x, y).
Around(m, x, y, ww, hh) ==
    << Elem(m, x, JsMod(y + 1, hh)),
       Elem(m, x, JsMod(y - 1 + hh, hh)),
       Elem(m, JsMod(x + 1, ww), y),
       Elem(m, JsMod(x - 1 + ww, ww), y) >>

\* Line 117: Math.min(a, b, c, d) === EMPTY; the minimum is NaN when an
\* argument is undefined.
MinIsEmpty(n) ==
    /\ n[1] # UNDEF /\ n[2] # UNDEF /\ n[3] # UNDEF /\ n[4] # UNDEF
    /\ (n[1] = EMPTY \/ n[2] = EMPTY \/ n[3] = EMPTY \/ n[4] = EMPTY)

\* Lines 114-120.
remove(m, x, y, ww, hh) ==
    IF MinIsEmpty(Around(m, x, y, ww, hh)) THEN Put(m, x, y, EMPTY) ELSE m

\* Line 124: the positions the first remove of an iteration can target.
RemoveTargetsA(ww, hh, wr) ==
    {<<a * 2 + 1, b * 2 + Bdry(wr) * 2>> :
        a \in FloorHalfRand(ww - 4 * Bdry(wr)),
        b \in FloorHalfRand(hh - 4 * Bdry(wr))}

\* Line 125: the positions the second remove of an iteration can target.
RemoveTargetsB(ww, hh, wr) ==
    {<<a * 2 + Bdry(wr) * 2, b * 2 + 1>> :
        a \in FloorHalfRand(ww - 4 * Bdry(wr)),
        b \in FloorHalfRand(hh - 4 * Bdry(wr))}

\* TRUE when one of the four reads of remove(x, y) is outside the grid.
ReadsOutside(m, x, y, ww, hh) ==
    LET n == Around(m, x, y, ww, hh)
    IN  n[1] = UNDEF \/ n[2] = UNDEF \/ n[3] = UNDEF \/ n[4] = UNDEF

\* One iteration of the loop of line 123.
ImperfectStep ==
    /\ pc = "imperfect"
    /\ i > 0
    /\ \E p \in RemoveTargetsA(w, h, wrap), q \in RemoveTargetsB(w, h, wrap) :
          LET m1 == remove(maze, p[1], p[2], w, h)
          IN  /\ maze' = remove(m1, q[1], q[2], w, h)
              /\ oob' = (oob \/ ReadsOutside(maze, p[1], p[2], w, h)
                             \/ ReadsOutside(m1, q[1], q[2], w, h))
    /\ i' = i - 1
    /\ UNCHANGED <<pc, w, h, wrap, imperfect, fill, res, cur, stack,
                   directions, ignoreReserved, sx, sy, err>>

\* The loop of line 123 ends; the sweep of lines 129-130 starts at (0, 0).
ImperfectDone ==
    /\ pc = "imperfect"
    /\ i = 0
    /\ sx' = 0
    /\ sy' = 0
    /\ pc' = "islands"
    /\ UNCHANGED <<w, h, wrap, imperfect, fill, res, maze, cur, stack,
                   directions, ignoreReserved, i, err, oob>>

-----------------------------------------------------------------------------
\* Lines 128-140: reconnect single-wall islands.

\* Line 134.
IsIsland(m, x, y, ww, hh) ==
    /\ Elem(m, x, JsMod(y + 1, hh)) = EMPTY
    /\ Elem(m, x, JsMod(y - 1 + hh, hh)) = EMPTY
    /\ Elem(m, JsMod(x + 1, ww), y) = EMPTY
    /\ Elem(m, JsMod(x - 1 + ww, ww), y) = EMPTY

\* RestoreTarget with the direction left out: the junction itself is written.
RestoreTargetNoDir(x, y, dir, ww, hh) ==
    <<JsMod(x + ww, ww), JsMod(y + hh, hh)>>

\* Line 137: the wall position restored for direction dir.
RestoreTarget(x, y, dir, ww, hh) ==
    <<JsMod(x + ww + dir.x, ww), JsMod(y + hh + dir.y, hh)>>

\* Lines 129-130: the junctions in the order the sweep visits them, y in the
\* outer loop and x in the inner one, numbered from 0.
JunctionCols(ww) == (ww + 1) \div 2
JunctionRows(hh) == (hh + 1) \div 2
JunctionIndex(x, y, ww) == (y \div 2) * JunctionCols(ww) + (x \div 2)
JunctionAt(k, ww) ==
    <<(k % JunctionCols(ww)) * 2, (k \div JunctionCols(ww)) * 2>>

\* The number of the first junction, from number k on, that is an island, or
\* the number of junctions when there is none.
RECURSIVE NextIsland(_, _, _, _)
NextIsland(m, k, ww, hh) ==
    IF k >= JunctionCols(ww) * JunctionRows(hh) THEN k
    ELSE IF IsIsland(m, JunctionAt(k, ww)[1], JunctionAt(k, ww)[2], ww, hh)
      THEN k
      ELSE NextIsland(m, k + 1, ww, hh)

\* The sweep runs on to the next junction that is an island and restores one
\* adjacent wall at random (lines 134-138); (sx, sy) is the junction after it.
IslandRestore ==
    /\ pc = "islands"
    /\ LET k == NextIsland(maze, JunctionIndex(sx, sy, w), w, h)
           j == JunctionAt(k, w)
           n == JunctionAt(k + 1, w)
       IN  /\ k < JunctionCols(w) * JunctionRows(h)
           /\ \E r \in 0 .. 3 :
                 LET t == RestoreTarget(j[1], j[2], directions[r + 1], w, h)
                 IN  maze' = Put(maze, t[1], t[2], SOLID)
           /\ sx' = n[1]
           /\ sy' = n[2]
    /\ UNCHANGED <<pc, w, h, wrap, imperfect, fill, res, cur, stack,
                   directions, ignoreReserved, i, err, oob>>

\* No junction from (sx, sy) on is an island: the sweep runs to its end.
IslandDone ==
    /\ pc = "islands"
    /\ NextIsland(maze, JunctionIndex(sx, sy, w), w, h)
          >= JunctionCols(w) * JunctionRows(h)
    /\ sx' = 0
    /\ sy' = JunctionRows(h) * 2
    /\ pc' = "unreserve"
    /\ UNCHANGED <<w, h, wrap, imperfect, fill, res, maze, cur, stack,
                   directions, ignoreReserved, i, err, oob>>

-----------------------------------------------------------------------------
\* Lines 143-152: unreserve everything and return the grid.

\* Unreserved with the clearing loop left out.
UnreservedSkipped(m, ww, hh) == m

\* Lines 145-149: every RESERVED cell position becomes SOLID.
Unreserved(m, ww, hh) ==
    [x \in DOMAIN m |-> [y \in DOMAIN m[x] |->
        IF x % 2 = 1 /\ y % 2 = 1 /\ m[x][y] = RESERVED
          THEN SOLID ELSE m[x][y]]]

Unreserve ==
    /\ pc = "unreserve"
    /\ maze' = IF res > 0 THEN Unreserved(maze, w, h) ELSE maze
    /\ pc' = "done"
    /\ UNCHANGED <<w, h, wrap, imperfect, fill, res, cur, stack, directions,
                   ignoreReserved, i, sx, sy, err, oob>>

-----------------------------------------------------------------------------

Next ==
    \/ Allocate
    \/ AllocateThrows
    \/ Reserve
    \/ StartThrows
    \/ Resample
    \/ StartFound
    \/ CarveCell
    \/ CarveSkip
    \/ CarveDone
    \/ ImperfectStep
    \/ ImperfectDone
    \/ IslandRestore
    \/ IslandDone
    \/ Unreserve

Spec == Init /\ [][Next]_vars

-----------------------------------------------------------------------------
\* Vocabulary of the properties.

Returned == pc = "done"

Positions == (DOMAIN maze) \X (0 .. h - 1)

IsCellPos(p) == p[1] % 2 = 1 /\ p[2] % 2 = 1
IsWallPos(p) == (p[1] + p[2]) % 2 = 1
IsJunctionPos(p) == p[1] % 2 = 0 /\ p[2] % 2 = 0

Passages == {p \in Positions : maze[p[1]][p[2]] = EMPTY}

\* The positions at distance 1 of p, around the torus when wrap is set.
Adjacent(p) ==
    IF wrap
      THEN { <<(p[1] + 1) % w, p[2]>>, <<(p[1] + w - 1) % w, p[2]>>,
             <<p[1], (p[2] + 1) % h>>, <<p[1], (p[2] + h - 1) % h>> }
      ELSE { <<p[1] + 1, p[2]>>, <<p[1] - 1, p[2]>>,
             <<p[1], p[2] + 1>>, <<p[1], p[2] - 1>> } \cap Positions

\* The passages joined to the passages of S through adjacent passages.
RECURSIVE Reach(_)
Reach(S) ==
    LET T == S \cup {q \in Passages : \E p \in S : q \in Adjacent(p)}
    IN  IF T = S THEN S ELSE Reach(T)

Imperfect == imperfect[1] > 0

Connected == Passages \subseteq Reach({<<cur.x, cur.y>>} \cap Passages)

\* The junctions all four of whose direct neighbours are passages.
OpenJunctions ==
    {p \in Positions :
        /\ IsJunctionPos(p)
        /\ maze[p[1]][(p[2] + 1) % h] = EMPTY
        /\ maze[p[1]][(p[2] + h - 1) % h] = EMPTY
        /\ maze[(p[1] + 1) % w][p[2]] = EMPTY
        /\ maze[(p[1] + w - 1) % w][p[2]] = EMPTY}

OuterRing ==
    {p \in Positions : p[1] \in {0, w - 1} \/ p[2] \in {0, h - 1}}

PassageCells == {p \in Passages : IsCellPos(p)}
OpenWalls == {p \in Passages : IsWallPos(p)}

\* The smallest integer >= n that is even on the torus, odd on the rectangle.
RoundUp(n, wr) == IF wr THEN n + (n % 2) ELSE n + (1 - (n % 2))

\* The start-cell loop of lines 55-58 stands on a position of the grid that
\* is not WALL and is about to draw another position.
Resampling ==
    /\ pc = "start"
    /\ cur.x \in DOMAIN maze
    /\ cur.y \in DOMAIN maze[cur.x]
    /\ maze[cur.x][cur.y] # SOLID

\* The cell of the entry on top of the stack.
TopCell == maze[Top(stack).x][Top(stack).y]

\* The entry on top of the stack is an already explored cell.
TopExplored ==
    TopCell = EMPTY \/ (TopCell = RESERVED /\ ignoreReserved <= 0)

\* Bounds the number of iterations the carving loop has left: every
\* iteration pops one entry, and pushes at most four only when it turns a
\* cell position into a passage.
CarveMeasure ==
    Len(stack)
      + 4 * Cardinality({p \in CellPositions(w, h) : maze[p[1]][p[2]] # EMPTY})

-----------------------------------------------------------------------------
\* C1: every position of the returned grid holds WALL (255) or PASSAGE (0);
\* no position holds RESERVED (127).
C1_TerminalStates ==
    Returned => \A p \in Positions : maze[p[1]][p[2]] \in {SOLID, EMPTY}

\* A grid is returned in which a cell position the carver never reached,
\* reserved until the clearing pass, is a wall.
C1_Witness ==
    /\ Returned
    /\ res > 0
    /\ \E p \in CellPositions(w, h) : maze[p[1]][p[2]] = SOLID

\* C2: with imperfect = 0 and fill = 1 the passage cells of the returned grid
\* are joined into one component and the number of open wall positions is the
\* number of passage cells minus 1 (a spanning tree, no cycle).
C2_SpanningTree ==
    (Returned /\ ~Imperfect /\ res = 0) =>
        /\ Connected
        /\ Cardinality(OpenWalls) = Cardinality(PassageCells) - 1

\* A perfect maze over the nine cell positions of a 7 x 7 rectangle is returned.
C2_Witness ==
    /\ Returned
    /\ ~Imperfect
    /\ res = 0
    /\ Cardinality(PassageCells) = 9

\* C3: normalisation rounds up by the minimal correction: the width becomes
\* the smallest integer >= the requested width that is even when wrap is set
\* and odd otherwise, and likewise the height.
C3_RoundsUp ==
    [][pc = "normalize" => (w' = RoundUp(w, wrap) /\ h' = RoundUp(h, wrap))]_vars

\* C4: the width and height of the returned grid are both even when wrap is
\* set and both odd when it is not.
C4_Parity ==
    Returned =>
        IF wrap THEN w % 2 = 0 /\ h % 2 = 0 ELSE w % 2 = 1 /\ h % 2 = 1

\* A rectangle of odd width and height is returned.
C4_Witness ==
    Returned /\ ~wrap /\ w = 5 /\ h = 7

\* C5: with fill = 1 makeMaze has no error outcome for any positive width
\* and height: nothing is thrown and no position outside the grid is read.
C5_NoError ==
    fill = 1 => (err = "none" /\ ~oob)

\* C6: with imperfect > 0 every passage of the returned grid is joined to the
\* carver's start cell through adjacent passages.
C6_StaysConnected ==
    (Returned /\ Imperfect) => Connected

\* C7: whenever the start-cell loop resamples and at least one cell position
\* of the grid is WALL, the resampling can draw a WALL cell position, so the
\* loop can fail to terminate only when no cell position is WALL.
C7_ResampleCanTerminate ==
    (Resampling /\ \E p \in CellPositions(w, h) : maze[p[1]][p[2]] = SOLID) =>
        \E c \in ResampleRange(w, h) :
            /\ <<c.x, c.y>> \in CellPositions(w, h)
            /\ maze[c.x][c.y] = SOLID

\* C8: the carving loop terminates: every iteration lowers CarveMeasure, an
\* iteration that pops an explored cell carves nothing and pushes nothing,
\* an iteration that carves pops a cell that is no passage yet (so that a
\* cell position is marked at most once) and pushes at most four entries.
C8_CarvingTerminates ==
    [][(pc = "carve" /\ Len(stack) > 0) =>
          /\ CarveMeasure' < CarveMeasure
          /\ TopExplored => (maze' = maze /\ stack' = Pop(stack))
          /\ maze' # maze => TopCell # EMPTY
          /\ Len(stack') <= Len(stack) - 1 + 4]_vars

\* The loop has run to an empty stack after carving at least eight cells.
C8_Witness ==
    /\ pc = "carve"
    /\ Len(stack) = 0
    /\ Cardinality(PassageCells) >= 8

\* C9: with wrap = false every position of the outer ring is WALL after
\* every step of carving, imperfection injection, island repair and
\* reservation clearing, and in the returned grid.
C9_OuterRingSolid ==
    (~wrap /\ pc \in {"carve", "imperfect", "islands", "unreserve", "done"}) =>
        \A p \in OuterRing : maze[p[1]][p[2]] = SOLID

\* C10: the single island-repair sweep leaves no island behind: no junction
\* the sweep has passed, and no junction of the returned grid, has all four
\* direct neighbours equal to PASSAGE.
C10_NoIslandLeft ==
    /\ pc = "islands" =>
          \A p \in OpenJunctions :
              JunctionIndex(p[1], p[2], w) >= JunctionIndex(sx, sy, w)
    /\ pc \in {"unreserve", "done"} => OpenJunctions = {}

\* The sweep has restored a wall next to an island and moved on.
C10_Witness ==
    /\ pc = "islands"
    /\ <<sx, sy>> # <<0, 0>>
    /\ \E p \in Positions :
          JunctionIndex(sx, sy, w) = JunctionIndex(p[1], p[2], w) + 1
            /\ IsJunctionPos(p)
            /\ Cardinality({q \in Adjacent(p) : q \in Passages}) = 3

=============================================================================
